---- MODULE Spec2Model ----
(***************************************************************************)
(* A model of scripts/sommelier.py (FCM Sommelier, Project Mjolnir 2.0):   *)
(* the TCP prober, the thread-pool batch, the adaptive selector and the    *)
(* round-robin LoadBalancer.                                               *)
(*                                                                         *)
(* An address string is modelled as the sequence of its tokens (groups and *)
(* separators), e.g. "1.2.3.4" is <<"1",".","2",".","3",".","4">>; the     *)
(* empty string "" is the empty sequence << >>.                            *)
(***************************************************************************)
EXTENDS Integers, Sequences, FiniteSets, TLC

(***************************************************************************)
(* Bounds of the model.                                                    *)
(***************************************************************************)
\* FCM_DOMAINS has 9 entries; the model runs with its first NumDomains.
NumDomains == 2
\* longest candidate pool handed to a LoadBalancer
MaxPool == 2
\* total number of assign calls issued on the LoadBalancers
MaxCalls == 4
\* longest address list handed to batch_measure
MaxBatch == 3
\* largest max_workers argument of batch_measure (MAX_WORKERS is 100)
MaxWorkers == 2
\* longest seed list of a run
MaxSeeds == 2
\* how many neighbours an expansion enumerates (254 for IPv4, 8 for IPv6)
ExpandMax == 1
\* longest result list handed to select_top_ips on its own
MaxResults == 4
\* how many times the expander is called on one address
MaxExpandCalls == 2

(***************************************************************************)
(* Program constants.                                                      *)
(***************************************************************************)
FCM_DOMAINS ==
  << "mtalk.google.com", "alt1-mtalk.google.com", "alt2-mtalk.google.com",
     "alt3-mtalk.google.com", "alt4-mtalk.google.com", "alt5-mtalk.google.com",
     "alt6-mtalk.google.com", "alt7-mtalk.google.com", "alt8-mtalk.google.com" >>

MIN_IPS_PER_DOMAIN == 1

\* the target list of a run: FCM_DOMAINS, cut to the model's bound
Domains == SubSeq(FCM_DOMAINS, 1, IF NumDomains < 9 THEN NumDomains ELSE 9)

(***************************************************************************)
(* Addresses.                                                              *)
(***************************************************************************)
\* the empty string "", the value assign returns for an empty pool
EmptyStr == << >>

AddrA == << "1", ".", "2", ".", "3", ".", "4" >>
AddrB == << "1", ".", "2", ".", "3", ".", "5" >>
AddrC == << "2001", ":", "db8", ":", ":", "1" >>

\* the addresses candidate pools are built from
PoolAddrs == { AddrA, AddrB }

(***************************************************************************)
(* Generic helpers.                                                        *)
(***************************************************************************)
Range(s) == { s[i] : i \in DOMAIN s }

SeqsUpTo(S, n) == UNION { [1..k -> S] : k \in 0..n }

\* the bijections of 1..n
Bijections(n) == { p \in [1..n -> 1..n] : \A i, j \in 1..n : p[i] = p[j] => i = j }

\* number of positions of s holding x
Count(s, x) == Cardinality({ i \in DOMAIN s : s[i] = x })

\* s has no element twice
NoDup(s) == \A i, j \in DOMAIN s : s[i] = s[j] => i = j

\* random.shuffle(x): every ordering of the list's elements is a possible outcome
Shuffles(s) == { [i \in 1..Len(s) |-> s[p[i]]] : p \in Bijections(Len(s)) }

(***************************************************************************)
(* State.                                                                  *)
(***************************************************************************)
VARIABLES
  \* ---- LoadBalancer ----
  lists,      \* the Python list objects, by name: lists["pool"] is the caller's pool
  origPool,   \* history: the content of the caller's pool before any construction
  lbs,        \* the LoadBalancer instances: made, ips (a list reference), index, lock
  th,         \* the calling threads: position in assign/generate_entries and locals
  returned,   \* history: per LoadBalancer, the values its assign calls returned
  observed,   \* history: per LoadBalancer, the cursor values its assign calls read
  calls,      \* number of assign calls issued so far
  \* ---- batch_measure ----
  bmIps,      \* the ips argument of the running batch_measure call
  max_workers,\* its max_workers argument
  env,        \* the connection outcomes the network can produce in this run
  bmPc,       \* position of the calling thread in batch_measure
  futures,    \* the futures, in submission order: ip, state, result, yielded
  workers,    \* the executor's worker threads: how many exist, how many are blocked
  idleSem,    \* the executor's idle semaphore
  open_sockets, \* number of sockets opened and not yet closed
  results,    \* the local list results
  \* ---- AdaptiveSelector ----
  seeds,      \* initial_ips, the seed list of the run
  selector_max_workers, \* self.max_workers of the AdaptiveSelector
  runPc,      \* position in expand_and_rescan, then select_top_ips
  initial_results, \* the results of the seed round
  allResults, \* what expand_and_rescan returns, the argument of select_top_ips
  top_ips,    \* the results kept by select_top_ips, as positions of allResults
  selected,   \* the address list select_top_ips returns
  batches,    \* history: the ips arguments of the run's batch_measure calls, in order
  expanded_from, \* history: the addresses the run called the expander with, in order
  \* ---- main ----
  mainPc,     \* position in main
  raw_ips,    \* what load_ips reads from raw_ips_v4.txt and raw_ips_v6.txt
  family_results, \* ipv4_all_results and ipv6_all_results
  all_results,\* the dict all_results: the candidate pool of each family
  files,      \* the hosts files written, as lists of lines
  \* ---- CSegmentExpander called on its own ----
  expIn,      \* the address the expander is called with
  expPc,      \* how many calls have been made
  expOut      \* the lists the calls returned, in call order

lbVars == << lists, origPool, lbs, th, returned, observed, calls >>

bmVars ==
  << bmIps, max_workers, env, bmPc, futures, workers, idleSem, open_sockets, results >>

runVars ==
  << seeds, selector_max_workers, runPc, initial_results, allResults, top_ips, selected,
     batches, expanded_from >>

mainVars == << mainPc, raw_ips, family_results, all_results, files >>

expVars == << expIn, expPc, expOut >>

vars == << lbVars, bmVars, runVars, mainVars, expVars >>

Families == { "v4", "v6" }
\* the hosts files main writes
HostsFiles == { "fcm_ipv4.hosts", "fcm_ipv6.hosts", "fcm_dual.hosts" }
\* a file that has not been written
NoFile == << "no file" >>

LBIds == { "lb1", "lb2" }
\* the threads that call into the LoadBalancers; "none" is the free lock
Threads == { "t1", "t2" }
NoThread == "none"

(***************************************************************************)
(* TCPSpeedometer.measure                                                  *)
(***************************************************************************)
\* SpeedResult(ip, latency_ms, success, error); error None is "None"
SpeedResult(ip, latency_ms, success, error) ==
  [ ip |-> ip, latency_ms |-> latency_ms, success |-> success, error |-> error ]

\* ':' in ip
HasColon(ip) == \E i \in DOMAIN ip : ip[i] = ":"

\* what one connection attempt can end in: the handshake completes after
\* `ms` milliseconds, or an exception of class `exc` with text `text` is raised
Connected(ms) == [ kind |-> "ok", ms |-> ms, exc |-> "None", text |-> "None" ]
Raises(exc, text) == [ kind |-> "raise", ms |-> 0, exc |-> exc, text |-> text ]

Latencies == { 10, 20 }

SockTimeout == Raises("socket.timeout", "timed out")
ConnRefused == Raises("ConnectionRefusedError", "[Errno 111] Connection refused")
BadAddress == Raises("socket.gaierror", "[Errno -2] Name or service not known")
\* socket.socket() itself failing, e.g. no descriptor left
SocketFails == Raises("OSError", "[Errno 24] Too many open files")

\* the outcomes the batches of SpecBM run against, one of each kind: handshake
\* completed, timeout, another connection error, socket creation failing
BatchOutcomes == { Connected(10), SockTimeout, ConnRefused, SocketFails }

\* the exception classes that derive from Exception (all of the above do)
ExceptionClasses ==
  { "socket.timeout", "ConnectionRefusedError", "OSError", "socket.gaierror" }

\* `except socket.timeout:` matches
IsSocketTimeout(o) == o.exc = "socket.timeout"

\* `except Exception as e:` matches
IsException_Uncaught(o) == FALSE

IsException(o) == o.exc \in ExceptionClasses

\* the try/except of measure: what the call ends in for outcome o of the
\* socket calls; value is the SpeedResult returned, raised an escaping exception
measure(ip, o) ==
  IF o.kind = "ok"
    THEN [ raised |-> FALSE, value |-> SpeedResult(ip, o.ms, TRUE, "None") ]
  ELSE IF IsSocketTimeout(o)
    THEN [ raised |-> FALSE, value |-> SpeedResult(ip, -1, FALSE, "timeout") ]
  ELSE IF IsException(o)
    THEN [ raised |-> FALSE, value |-> SpeedResult(ip, -1, FALSE, o.text) ]
  ELSE [ raised |-> TRUE, value |-> SpeedResult(ip, -1, FALSE, o.exc) ]

(***************************************************************************)
(* batch_measure                                                           *)
(***************************************************************************)
\* an address that is no IPv4 or IPv6 literal
AddrBad == << "bogus", ".", "1" >>

\* the addresses batches are made of
BatchAddrs == { AddrC, AddrBad }

WellFormed(ip) == ip # AddrBad

NoResult == [ raised |-> FALSE, value |-> SpeedResult(EmptyStr, -1, FALSE, "pending") ]

\* executor.submit(speedometer.measure, ip): a new pending future; sock is the
\* local variable of its measure call, outcome what its socket calls ended in
NewFuture(ip) ==
  [ ip |-> ip, state |-> "pending", sock |-> "None", res |-> NoResult,
    outcome |-> Raises("None", "None"), yielded |-> FALSE ]

\* no expand_and_rescan or select_top_ips call is in progress
RunIdle ==
  /\ seeds = << >>
  /\ selector_max_workers = 1
  /\ runPc = "none"
  /\ initial_results = << >>
  /\ allResults = << >>
  /\ top_ips = << >>
  /\ selected = << >>
  /\ batches = << >>
  /\ expanded_from = << >>

\* main is not running
MainIdle ==
  /\ mainPc = "none"
  /\ raw_ips = [ f \in Families |-> << >> ]
  /\ family_results = [ f \in Families |-> << >> ]
  /\ all_results = [ f \in Families |-> << >> ]
  /\ files = [ n \in HostsFiles |-> NoFile ]

\* the expander is not called on its own
ExpIdle ==
  /\ expIn = << >>
  /\ expPc = 0
  /\ expOut = << >>

\* no batch_measure call is in progress
BMIdle ==
  /\ bmIps = << >>
  /\ max_workers = 1
  /\ env = { }
  /\ bmPc = "none"
  /\ futures = << >>
  /\ workers = [ threads |-> 0, blocked |-> 0 ]
  /\ idleSem = 0
  /\ open_sockets = 0
  /\ results = << >>

\* the futures whose measure call has started and not yet returned
Running == { i \in DOMAIN futures : futures[i].state \in { "socket", "connect" } }

Pending == { i \in DOMAIN futures : futures[i].state = "pending" }

\* head of the executor's FIFO work queue
NextPending == CHOOSE i \in Pending : \A j \in Pending : i <= j

\* worker threads that are neither inside a work item nor blocked on the queue
FreeWorkers == workers.threads - workers.blocked - Cardinality(Running)

\* if not ips: return []   -- otherwise the executor is created
BMEnter ==
  /\ bmPc = "call"
  /\ bmPc' = IF bmIps = << >> THEN "returned" ELSE "submit"
  /\ UNCHANGED << bmIps, max_workers, env, futures, workers, idleSem, open_sockets,
                  results >>
  /\ UNCHANGED << lbVars, runVars, mainVars, expVars >>

\* ThreadPoolExecutor._adjust_thread_count: whether submit starts a new worker
\* when n worker threads exist
MaySpawn_Unbounded(n) == TRUE

MaySpawn(n) == n < max_workers

\* futures = {executor.submit(speedometer.measure, ip): ip for ip in ips}, one
\* submit: the work item is queued, and a worker thread is started unless an
\* idle one has announced itself or max_workers threads exist
BMSubmit ==
  /\ bmPc = "submit"
  /\ LET i == Len(futures) + 1
     IN  /\ futures' = Append(futures, NewFuture(bmIps[i]))
         /\ bmPc' = IF i = Len(bmIps) THEN "collect" ELSE "submit"
  /\ IF idleSem > 0
       THEN idleSem' = idleSem - 1 /\ UNCHANGED workers
       ELSE /\ UNCHANGED idleSem
            /\ workers' = IF MaySpawn(workers.threads)
                            THEN [ workers EXCEPT !.threads = @ + 1 ] ELSE workers
  /\ UNCHANGED << bmIps, max_workers, env, open_sockets, results >>
  /\ UNCHANGED << lbVars, runVars, mainVars, expVars >>

\* a worker finds the work queue empty: it releases the idle semaphore and
\* blocks on the queue
WorkerWait ==
  /\ FreeWorkers > 0
  /\ Pending = { }
  /\ bmPc \in { "submit", "collect", "raising" }
  /\ workers' = [ workers EXCEPT !.blocked = @ + 1 ]
  /\ idleSem' = idleSem + 1
  /\ UNCHANGED << bmIps, max_workers, env, bmPc, futures, open_sockets, results >>
  /\ UNCHANGED << lbVars, runVars, mainVars, expVars >>

\* a worker (a free one, or one blocked on the queue) takes the next work item
\* and enters measure(ip): sock = None
WorkerTake ==
  /\ Pending # { }
  /\ \/ FreeWorkers > 0 /\ UNCHANGED workers
     \/ workers.blocked > 0 /\ workers' = [ workers EXCEPT !.blocked = @ - 1 ]
  /\ futures' = [ futures EXCEPT ![NextPending].state = "socket" ]
  /\ UNCHANGED << bmIps, max_workers, env, bmPc, idleSem, open_sockets, results >>
  /\ UNCHANGED << lbVars, runVars, mainVars, expVars >>

\* finally: if sock: sock.close()
Finally_Leak(sock) == sock

Finally(sock) == IF sock = "None" THEN "None" ELSE "closed"

\* the measure call of future f returns (or raises) for outcome o: the finally
\* clause runs, and the future takes the result
Finish(f, o) ==
  /\ futures' = [ futures EXCEPT ![f].state = "finished",
                                 ![f].res = measure(futures[f].ip, o),
                                 ![f].outcome = o,
                                 ![f].sock = Finally(futures[f].sock) ]
  /\ open_sockets' = IF Finally(futures[f].sock) = "closed" /\ futures[f].sock # "closed"
                       THEN open_sockets - 1 ELSE open_sockets

\* sock = socket.socket(AF_INET6 if ':' in ip else AF_INET, SOCK_STREAM): a
\* socket is opened, or the call raises and measure ends in the except clause
MeasureSocket ==
  /\ \E f \in DOMAIN futures :
       /\ futures[f].state = "socket"
       /\ \/ /\ futures' = [ futures EXCEPT
                               ![f].state = "connect",
                               ![f].sock = IF HasColon(futures[f].ip)
                                             THEN "AF_INET6" ELSE "AF_INET" ]
             /\ open_sockets' = open_sockets + 1
          \/ SocketFails \in env /\ Finish(f, SocketFails)
  /\ UNCHANGED << bmIps, max_workers, env, bmPc, workers, idleSem, results >>
  /\ UNCHANGED << lbVars, runVars, mainVars, expVars >>

\* what sock.connect can end in for this address
ConnectOutcomes_Blocks(ip) == IF WellFormed(ip) THEN { } ELSE { BadAddress }

ConnectOutcomes(ip) == IF WellFormed(ip) THEN env \ { SocketFails } ELSE { BadAddress }

\* sock.settimeout(self.timeout); sock.connect(...): every outcome ends the call
MeasureConnect ==
  /\ \E f \in DOMAIN futures :
       /\ futures[f].state = "connect"
       /\ \E o \in ConnectOutcomes(futures[f].ip) : Finish(f, o)
  /\ UNCHANGED << bmIps, max_workers, env, bmPc, workers, idleSem, results >>
  /\ UNCHANGED << lbVars, runVars, mainVars, expVars >>

\* results.append(result)
AppendResult_ByIp(rs, r) ==
  IF \E i \in DOMAIN rs : rs[i].ip = r.ip THEN rs ELSE Append(rs, r)

AppendResult(rs, r) == Append(rs, r)

\* for future in as_completed(futures): result = future.result();
\* results.append(result) -- future.result() re-raises what measure raised
BMCollect ==
  /\ bmPc = "collect"
  /\ \E i \in DOMAIN futures :
       /\ futures[i].state = "finished"
       /\ ~futures[i].yielded
       /\ futures' = [ futures EXCEPT ![i].yielded = TRUE ]
       /\ IF futures[i].res.raised
            THEN bmPc' = "raising" /\ UNCHANGED results
            ELSE bmPc' = bmPc /\ results' = AppendResult(results, futures[i].res.value)
  /\ UNCHANGED << bmIps, max_workers, env, workers, idleSem, open_sockets >>
  /\ UNCHANGED << lbVars, runVars, mainVars, expVars >>

\* as_completed is exhausted once every future has been yielded
LoopDone == \A i \in DOMAIN futures : futures[i].yielded

\* leaving the with block: executor.shutdown(wait=True) joins the workers, which
\* exit once the queue is drained and their work item is done
ShutdownDone == Pending = { } /\ Running = { }

\* when the caller gets past the loop and the with block
MayReturn_FirstSuccess == \E i \in DOMAIN results : results[i].success

MayReturn == LoopDone /\ ShutdownDone

\* the loop is over and the executor shut down: return results (or, the
\* executor shut down, let the exception of future.result() escape)
BMReturn ==
  /\ \/ bmPc = "collect" /\ MayReturn /\ bmPc' = "returned"
     \/ bmPc = "raising" /\ ShutdownDone /\ bmPc' = "raised"
  /\ UNCHANGED << bmIps, max_workers, env, futures, workers, idleSem, open_sockets,
                  results >>
  /\ UNCHANGED << lbVars, runVars, mainVars, expVars >>

batch_measure ==
  \/ BMEnter
  \/ BMSubmit
  \/ BMCollect
  \/ BMReturn
  \/ WorkerWait
  \/ WorkerTake
  \/ MeasureSocket
  \/ MeasureConnect

(***************************************************************************)
(* String operations on addresses.                                         *)
(***************************************************************************)
\* position of the first token sep in s, 0 if there is none
FirstSep(s, sep) ==
  IF \E i \in DOMAIN s : s[i] = sep
    THEN CHOOSE i \in DOMAIN s : s[i] = sep /\ \A j \in 1..(i - 1) : s[j] # sep
    ELSE 0

\* s.split(sep): the parts between the separators, empty parts included; the
\* k-th part runs from after the (k-1)-th separator to before the k-th one
Split(s, sep) ==
  LET at == { i \in DOMAIN s : s[i] = sep }
      Bound(k) ==
        IF k = 0 THEN 0
        ELSE IF k = Cardinality(at) + 1 THEN Len(s) + 1
        ELSE CHOOSE i \in at : Cardinality({ j \in at : j < i }) = k - 1
  IN  [ k \in 1..(Cardinality(at) + 1) |-> SubSeq(s, Bound(k - 1) + 1, Bound(k) - 1) ]

RECURSIVE Join(_, _)
\* sep.join(parts)
Join(parts, sep) ==
  IF parts = << >> THEN << >>
  ELSE IF Len(parts) = 1 THEN parts[1]
  ELSE parts[1] \o << sep >> \o Join(Tail(parts), sep)

\* parts[:n]
Take(parts, n) == SubSeq(parts, 1, IF n < Len(parts) THEN n ELSE Len(parts))

\* s.endswith(sep)
EndsWith(s, sep) == s # << >> /\ s[Len(s)] = sep

RECURSIVE Concat(_)
\* the lists of a list of lists, one after the other (list.extend in a loop)
Concat(ls) == IF ls = << >> THEN << >> ELSE Head(ls) \o Concat(Tail(ls))

(***************************************************************************)
(* CSegmentExpander                                                        *)
(***************************************************************************)
\* range(1, 255), cut to the model's bound
HostNumbers == 1..(IF ExpandMax < 254 THEN ExpandMax ELSE 254)

\* range(8), cut to the model's bound
BlockNumbers == 0..((IF ExpandMax < 8 THEN ExpandMax ELSE 8) - 1)

\* [f"{prefix}{i}" for i in numbers], in increasing order of i; the numbers
\* used are below 10, where decimal and hexadecimal digits are the same
Enumerate(prefix, numbers) ==
  LET lo == CHOOSE n \in numbers : \A m \in numbers : n <= m
  IN  [ k \in 1..Cardinality(numbers) |-> prefix \o << ToString(lo + k - 1) >> ]

\* expand_c_segment with `numbers` for range(1, 255)
CSegmentOf(ip, numbers) ==
  LET parts == Split(ip, ".")
  IN  IF Len(parts) # 4 THEN << ip >>
      ELSE Enumerate(Join(Take(parts, 3), ".") \o << "." >>, numbers)

\* expand_ipv6_block with `numbers` for range(8)
IPv6BlockOf(ip, numbers) ==
  LET parts == Split(ip, ":")
      prefix_parts == IF Len(parts) >= 7 THEN Take(parts, 7) ELSE parts
      joined == Join(prefix_parts, ":")
      prefix == IF EndsWith(joined, ":") THEN joined ELSE joined \o << ":" >>
  IN  IF Len(parts) < 2 THEN << ip >>
      ELSE Enumerate(prefix, numbers)

\* the expanders as the runs call them, over the cut ranges
expand_c_segment(ip) == CSegmentOf(ip, HostNumbers)

expand_ipv6_block(ip) == IPv6BlockOf(ip, BlockNumbers)

\* range(1, 255) in full
HostRange_From0 == 0..254

HostRange == 1..254

\* range(8) in full
BlockRange == 0..7

\* CSegmentExpander.expand_c_segment(expIn) is called and returns
CallExpandCSegment ==
  /\ expPc < MaxExpandCalls
  /\ expPc' = expPc + 1
  /\ expOut' = Append(expOut, [ fn |-> "expand_c_segment",
                                out |-> CSegmentOf(expIn, HostRange) ])
  /\ UNCHANGED expIn
  /\ UNCHANGED << lbVars, bmVars, runVars, mainVars >>

\* CSegmentExpander.expand_ipv6_block(expIn) is called and returns
CallExpandIPv6Block ==
  /\ expPc < MaxExpandCalls
  /\ expPc' = expPc + 1
  /\ expOut' = Append(expOut, [ fn |-> "expand_ipv6_block",
                                out |-> IPv6BlockOf(expIn, BlockRange) ])
  /\ UNCHANGED expIn
  /\ UNCHANGED << lbVars, bmVars, runVars, mainVars >>

(***************************************************************************)
(* AdaptiveSelector                                                        *)
(***************************************************************************)
get_c_segment(ip) ==
  LET parts == Split(ip, ".")
  IN  IF Len(parts) = 4 THEN Join(Take(parts, 3), ".") \o << "." >> ELSE ip

get_ipv6_block(ip) ==
  LET parts == Split(ip, ":")
  IN  IF Len(parts) >= 4 THEN Join(Take(parts, 4), ":") \o << ":" >> ELSE ip

\* the grouping key of a successful result in expand_and_rescan
BlockOf(ip) == IF HasColon(ip) THEN get_ipv6_block(ip) ELSE get_c_segment(ip)

\* [r for r in results if r.success], as positions of results
Successful_All(rs) == [ i \in DOMAIN rs |-> i ]

Successful(rs) ==
  LET PosSeq == [ i \in DOMAIN rs |-> i ]
      Ok(i) == rs[i].success
  IN  SelectSeq(PosSeq, Ok)

\* blocks.items(): for every block, in order of first appearance, the position
\* of success_ips[0], the first successful result of the block
BlockSeeds_All(rs) == [ i \in DOMAIN rs |-> i ]

BlockSeeds(rs) ==
  LET succ == Successful(rs)
      First(i) == \A k \in DOMAIN succ :
                    (succ[k] < i) => BlockOf(rs[succ[k]].ip) # BlockOf(rs[i].ip)
  IN  SelectSeq(succ, First)

\* the expansion of one block, from its seed address
Expanded(seed) ==
  IF HasColon(BlockOf(seed)) THEN expand_ipv6_block(seed) ELSE expand_c_segment(seed)

\* new_ips = [ip for ip in expanded if ip not in tested]
NewIps_NoFilter(expanded, rs) == expanded

NewIps(expanded, rs) ==
  LET tested == { rs[i].ip : i \in DOMAIN rs }
      Untested(ip) == ip \notin tested
  IN  SelectSeq(expanded, Untested)

\* seed = success_ips[0].ip of every block, in the order of the loop over
\* blocks.items(): the addresses the expander is called with
ExpanderCalls(rs) ==
  LET seedsOf == BlockSeeds(rs)
  IN  [ k \in DOMAIN seedsOf |-> rs[seedsOf[k]].ip ]

\* ips_to_rescan, built over all successful blocks of the seed round: for
\* every block seed = success_ips[0].ip, then ips_to_rescan.extend(new_ips)
IpsToRescan(rs) ==
  LET seedsOf == BlockSeeds(rs)
      Extended[k \in 0..Len(seedsOf)] ==
        IF k = 0 THEN << >>
        ELSE Extended[k - 1]
               \o (CHOOSE new_ips \in { NewIps(Expanded(seed), rs) :
                                           seed \in { rs[seedsOf[k]].ip } } : TRUE)
  IN  Extended[Len(seedsOf)]

\* batch_measure(ips, timeout=..., max_workers=...) is entered
StartBatch(ips, mw) ==
  /\ batches' = Append(batches, ips)
  /\ bmIps' = ips
  /\ max_workers' = mw
  /\ bmPc' = "call"
  /\ futures' = << >>
  /\ workers' = [ threads |-> 0, blocked |-> 0 ]
  /\ idleSem' = 0
  /\ results' = << >>
  /\ UNCHANGED << env, open_sockets >>

\* expand_and_rescan(initial_ips) begins: the seed round is dispatched
ExpandAndRescan ==
  /\ runPc = "start"
  /\ StartBatch(seeds, selector_max_workers)
  /\ runPc' = "scan1"
  /\ UNCHANGED << seeds, selector_max_workers, initial_results, allResults, top_ips,
                  selected, expanded_from >>
  /\ UNCHANGED << lbVars, mainVars, expVars >>

\* the seed round has returned: with no success initial_results is returned
\* at once; otherwise the expander is called once per successful block, and
\* with nothing new to scan initial_results is returned, else the expansion
\* round is dispatched
AfterSeedRound ==
  /\ runPc = "scan1"
  /\ bmPc = "returned"
  /\ initial_results' = results
  /\ IF Successful(results) = << >>
       THEN /\ allResults' = results
            /\ runPc' = "select"
            /\ UNCHANGED << bmVars, batches, expanded_from >>
       ELSE /\ expanded_from' = expanded_from \o ExpanderCalls(results)
            /\ IF IpsToRescan(results) = << >>
                 THEN /\ allResults' = results
                      /\ runPc' = "select"
                      /\ UNCHANGED << bmVars, batches >>
                 ELSE /\ StartBatch(IpsToRescan(results), selector_max_workers)
                      /\ runPc' = "scan2"
                      /\ UNCHANGED allResults
  /\ UNCHANGED << seeds, selector_max_workers, top_ips, selected >>
  /\ UNCHANGED << lbVars, mainVars, expVars >>

\* the expansion round has returned: all_results = initial_results + expanded_results
AfterExpansionRound ==
  /\ runPc = "scan2"
  /\ bmPc = "returned"
  /\ allResults' = initial_results \o results
  /\ runPc' = "select"
  /\ UNCHANGED << seeds, selector_max_workers, initial_results, top_ips, selected,
                  batches, expanded_from >>
  /\ UNCHANGED bmVars
  /\ UNCHANGED << lbVars, mainVars, expVars >>

expand_and_rescan ==
  \/ ExpandAndRescan
  \/ AfterSeedRound
  \/ AfterExpansionRound

RECURSIVE SortedByLatency(_, _)
\* sorted(successful, key=lambda x: x.latency_ms) over the positions in idx: a
\* stable sort, equal latencies keep their order
SortedByLatency_Unsorted(rs, idx) == idx

SortedByLatency(rs, idx) ==
  IF idx = << >> THEN << >>
  ELSE LET m == CHOOSE k \in DOMAIN idx :
                  \A j \in DOMAIN idx :
                    \/ rs[idx[k]].latency_ms < rs[idx[j]].latency_ms
                    \/ rs[idx[k]].latency_ms = rs[idx[j]].latency_ms /\ k <= j
           rest == [ j \in 1..(Len(idx) - 1) |-> IF j < m THEN idx[j] ELSE idx[j + 1] ]
       IN  << idx[m] >> \o SortedByLatency(rs, rest)

\* target_count = len(FCM_DOMAINS) * MIN_IPS_PER_DOMAIN
target_count == Len(Domains) * MIN_IPS_PER_DOMAIN

\* sorted_results[:target_count] when there are more, else all of them
Truncated(sorted_results) ==
  IF Len(sorted_results) > target_count
    THEN SubSeq(sorted_results, 1, target_count)
    ELSE sorted_results

\* select_top_ips(results): top_ips holds positions of results; the returned
\* list is [r.ip for r in top_ips] after random.shuffle(top_ips)
select_top_ips ==
  /\ runPc = "select"
  /\ LET successful == Successful(allResults)
     IN  IF successful = << >>
           THEN top_ips' = << >> /\ selected' = << >>
           ELSE \E shuffled \in
                    Shuffles(Truncated(SortedByLatency(allResults, successful))) :
                  /\ top_ips' = shuffled
                  /\ selected' = [ i \in DOMAIN shuffled |-> allResults[shuffled[i]].ip ]
  /\ runPc' = "done"
  /\ UNCHANGED << seeds, selector_max_workers, initial_results, allResults, batches,
                  expanded_from >>
  /\ UNCHANGED bmVars
  /\ UNCHANGED << lbVars, mainVars, expVars >>

(***************************************************************************)
(* LoadBalancer.                                                           *)
(***************************************************************************)
NotMade == [ made |-> FALSE, ips |-> "pool", index |-> 0, lock |-> NoThread ]

IdleThread ==
  [ pc |-> "idle", lb |-> "lb1", todo |-> << >>, ip |-> EmptyStr, tmp |-> 0,
    out |-> << >> ]

\* the list a LoadBalancer's self.ips refers to
IpsOf(l) == lists[lbs[l].ips]

InitLB ==
  /\ \E p \in SeqsUpTo(PoolAddrs, MaxPool) :
       /\ lists = [ o \in { "pool" } |-> p ]
       /\ origPool = p
  /\ lbs = [ l \in LBIds |-> NotMade ]
  /\ th = [ t \in Threads |-> IdleThread ]
  /\ returned = [ l \in LBIds |-> << >> ]
  /\ observed = [ l \in LBIds |-> << >> ]
  /\ calls = 0
  /\ BMIdle
  /\ RunIdle
  /\ MainIdle
  /\ ExpIdle

\* LoadBalancer(ips, shuffle): random.shuffle(ips) works in place on the list
\* passed in, and self.ips = ips keeps a reference to that same list
LoadBalancer(l, shuffle) ==
  /\ ~lbs[l].made
  /\ \E q \in (IF shuffle THEN Shuffles(lists["pool"]) ELSE { lists["pool"] }) :
       lists' = [ lists EXCEPT !["pool"] = q ]
  /\ lbs' = [ lbs EXCEPT ![l] =
                [ made |-> TRUE, ips |-> "pool", index |-> 0, lock |-> NoThread ] ]
  /\ UNCHANGED << origPool, th, returned, observed, calls >>
  /\ UNCHANGED << bmVars, runVars, mainVars, expVars >>

Construct == \E l \in LBIds, shuffle \in BOOLEAN : LoadBalancer(l, shuffle)

\* a thread calls lb.assign(domain)
CallAssign(t) ==
  /\ th[t].pc = "idle"
  /\ calls < MaxCalls
  /\ \E l \in LBIds, i \in DOMAIN Domains :
       /\ lbs[l].made
       /\ th' = [ th EXCEPT ![t] =
                    [ IdleThread EXCEPT !.pc = "check", !.lb = l,
                                        !.todo = << Domains[i] >> ] ]
  /\ calls' = calls + 1
  /\ UNCHANGED << lists, origPool, lbs, returned, observed >>
  /\ UNCHANGED << bmVars, runVars, mainVars, expVars >>

\* a thread calls lb.generate_entries(FCM_DOMAINS): one assign per domain, in order
CallGenerateEntries(t) ==
  /\ th[t].pc = "idle"
  /\ calls + Len(Domains) <= MaxCalls
  /\ \E l \in LBIds :
       /\ lbs[l].made
       /\ th' = [ th EXCEPT ![t] =
                    [ IdleThread EXCEPT !.pc = "check", !.lb = l, !.todo = Domains ] ]
  /\ calls' = calls + Len(Domains)
  /\ UNCHANGED << lists, origPool, lbs, returned, observed >>
  /\ UNCHANGED << bmVars, runVars, mainVars, expVars >>

\* the value ip is returned by the running assign call: it is paired with the
\* domain, and the thread goes on to the next domain or finishes
ReturnFrom(t, ip) ==
  LET me == th[t]
      rest == Tail(me.todo)
  IN  /\ th' = [ th EXCEPT ![t] =
                   [ me EXCEPT !.out = Append(me.out, << ip, Head(me.todo) >>),
                               !.todo = rest,
                               !.ip = EmptyStr,
                               !.tmp = 0,
                               !.pc = IF rest = << >> THEN "idle" ELSE "check" ] ]
      /\ returned' = [ returned EXCEPT ![me.lb] = Append(@, ip) ]

\* `not self.ips`
IsEmptyPool_Never(ips) == FALSE

IsEmptyPool(ips) == ips = << >>

\* if not self.ips: return ""
AssignCheck(t) ==
  /\ th[t].pc = "check"
  /\ IF IsEmptyPool(IpsOf(th[t].lb))
       THEN ReturnFrom(t, EmptyStr)
       ELSE /\ th' = [ th EXCEPT ![t].pc = "acquire" ]
            /\ UNCHANGED returned
  /\ UNCHANGED << lists, origPool, lbs, observed, calls >>
  /\ UNCHANGED << bmVars, runVars, mainVars, expVars >>

\* whether `with self.lock:` may enter
LockFree_NoLock(l) == TRUE

LockFree(l) == lbs[l].lock = NoThread

\* with self.lock:
AssignAcquire(t) ==
  /\ th[t].pc = "acquire"
  /\ LockFree(th[t].lb)
  /\ lbs' = [ lbs EXCEPT ![th[t].lb].lock = t ]
  /\ th' = [ th EXCEPT ![t].pc = "read" ]
  /\ UNCHANGED << lists, origPool, returned, observed, calls >>
  /\ UNCHANGED << bmVars, runVars, mainVars, expVars >>

\* ip = self.ips[self.index % len(self.ips)]; with an empty list the modulo
\* raises ZeroDivisionError
AssignRead(t) ==
  /\ th[t].pc = "read"
  /\ LET l == th[t].lb
         ips == IpsOf(l)
     IN  IF Len(ips) = 0
           THEN /\ th' = [ th EXCEPT ![t].pc = "raised" ]
                /\ lbs' = [ lbs EXCEPT ![l].lock = NoThread ]
                /\ UNCHANGED observed
           ELSE /\ th' = [ th EXCEPT ![t].pc = "load",
                                     ![t].ip = ips[(lbs[l].index % Len(ips)) + 1] ]
                /\ observed' = [ observed EXCEPT ![l] = Append(@, lbs[l].index) ]
                /\ UNCHANGED lbs
  /\ UNCHANGED << lists, origPool, returned, calls >>
  /\ UNCHANGED << bmVars, runVars, mainVars, expVars >>

\* self.index += 1, first half: load self.index
AssignLoad_Shared(t) ==
  /\ th[t].pc = "load"
  /\ th' = [ th EXCEPT ![t].pc = "store", ![t].tmp = lbs["lb1"].index ]
  /\ UNCHANGED << lists, origPool, lbs, returned, observed, calls >>
  /\ UNCHANGED << bmVars, runVars, mainVars, expVars >>

AssignLoad(t) ==
  /\ th[t].pc = "load"
  /\ th' = [ th EXCEPT ![t].pc = "store", ![t].tmp = lbs[th[t].lb].index ]
  /\ UNCHANGED << lists, origPool, lbs, returned, observed, calls >>
  /\ UNCHANGED << bmVars, runVars, mainVars, expVars >>

\* self.index += 1, second half: store the sum
AssignStore_NoAdvance(t) ==
  /\ th[t].pc = "store"
  /\ lbs' = [ lbs EXCEPT ![th[t].lb].index = th[t].tmp ]
  /\ th' = [ th EXCEPT ![t].pc = "return" ]
  /\ UNCHANGED << lists, origPool, returned, observed, calls >>
  /\ UNCHANGED << bmVars, runVars, mainVars, expVars >>

AssignStore(t) ==
  /\ th[t].pc = "store"
  /\ lbs' = [ lbs EXCEPT ![th[t].lb].index = th[t].tmp + 1 ]
  /\ th' = [ th EXCEPT ![t].pc = "return" ]
  /\ UNCHANGED << lists, origPool, returned, observed, calls >>
  /\ UNCHANGED << bmVars, runVars, mainVars, expVars >>

\* return ip, leaving the with block: the lock is released
AssignReturn(t) ==
  /\ th[t].pc = "return"
  /\ lbs' = [ lbs EXCEPT ![th[t].lb].lock = NoThread ]
  /\ ReturnFrom(t, th[t].ip)
  /\ UNCHANGED << lists, origPool, observed, calls >>
  /\ UNCHANGED << bmVars, runVars, mainVars, expVars >>

assign(t) ==
  \/ AssignCheck(t)
  \/ AssignAcquire(t)
  \/ AssignRead(t)
  \/ AssignLoad(t)
  \/ AssignStore(t)
  \/ AssignReturn(t)

NextLB ==
  \/ Construct
  \/ \E t \in Threads : CallAssign(t)
  \/ \E t \in Threads : CallGenerateEntries(t)
  \/ \E t \in Threads : assign(t)

SpecLB == InitLB /\ [][NextLB]_vars

(***************************************************************************)
(* batch_measure on its own: every input list, every pool size.            *)
(***************************************************************************)
LBIdle ==
  /\ lists = [ o \in { "pool" } |-> << >> ]
  /\ origPool = << >>
  /\ lbs = [ l \in LBIds |-> NotMade ]
  /\ th = [ t \in Threads |-> IdleThread ]
  /\ returned = [ l \in LBIds |-> << >> ]
  /\ observed = [ l \in LBIds |-> << >> ]
  /\ calls = 0

InitBM ==
  /\ bmIps \in SeqsUpTo(BatchAddrs, MaxBatch)
  /\ max_workers \in 1..MaxWorkers
  /\ env = BatchOutcomes
  /\ bmPc = "call"
  /\ futures = << >>
  /\ workers = [ threads |-> 0, blocked |-> 0 ]
  /\ idleSem = 0
  /\ open_sockets = 0
  /\ results = << >>
  /\ LBIdle
  /\ RunIdle
  /\ MainIdle
  /\ ExpIdle

NextBM == batch_measure

SpecBM == InitBM /\ [][NextBM]_vars

(***************************************************************************)
(* select_top_ips on its own: every list of probe results.                 *)
(***************************************************************************)
\* the probe results the lists are made of
SelResults ==
  { SpeedResult(a, ms, TRUE, "None") : a \in { AddrA, AddrB }, ms \in Latencies }
    \cup { SpeedResult(a, -1, FALSE, "timeout") : a \in { AddrA, AddrB } }

InitSel ==
  /\ LBIdle
  /\ BMIdle
  /\ seeds = << >>
  /\ selector_max_workers = 1
  /\ runPc = "select"
  /\ initial_results = << >>
  /\ allResults \in SeqsUpTo(SelResults, MaxResults)
  /\ top_ips = << >>
  /\ selected = << >>
  /\ batches = << >>
  /\ expanded_from = << >>
  /\ MainIdle
  /\ ExpIdle

NextSel == select_top_ips

SpecSel == InitSel /\ [][NextSel]_vars

(***************************************************************************)
(* A run of one address family: expand_and_rescan, then select_top_ips.    *)
(***************************************************************************)
Seed1 == << "1", ".", "2", ".", "3", ".", "1" >>
Seed2 == << "1", ".", "2", ".", "3", ".", "2" >>
Seed6 == << "2001", ":", "db8", ":", ":", "1" >>

SeedAddrs == { Seed1, Seed2, Seed6 }

\* the outcomes the probes of a run can have
RunOutcomes == { Connected(10), SockTimeout }

InitRun ==
  /\ LBIdle
  /\ bmIps = << >>
  /\ max_workers = 1
  /\ env = RunOutcomes
  /\ bmPc = "none"
  /\ futures = << >>
  /\ workers = [ threads |-> 0, blocked |-> 0 ]
  /\ idleSem = 0
  /\ open_sockets = 0
  /\ results = << >>
  /\ seeds \in SeqsUpTo(SeedAddrs, MaxSeeds) \ { << >> }
  /\ selector_max_workers = MaxWorkers
  /\ runPc = "start"
  /\ initial_results = << >>
  /\ allResults = << >>
  /\ top_ips = << >>
  /\ selected = << >>
  /\ batches = << >>
  /\ expanded_from = << >>
  /\ MainIdle
  /\ ExpIdle

NextRun ==
  \/ expand_and_rescan
  \/ batch_measure
  \/ select_top_ips

SpecRun == InitRun /\ [][NextRun]_vars

\* the seed lists of the runs whose termination is checked: one block, one
\* block with a non-representative seed, an IPv6 seed, both families
FairSeeds ==
  { << Seed1 >>, << Seed2, Seed1 >>, << Seed6 >>, << Seed6, Seed2 >> }

InitRunFair ==
  /\ InitRun
  /\ seeds \in FairSeeds

\* the steps of the calling thread inside expand_and_rescan and batch_measure
CallerSteps ==
  \/ expand_and_rescan
  \/ BMEnter
  \/ BMSubmit
  \/ BMCollect
  \/ BMReturn

\* the steps of the executor's worker threads
WorkerSteps ==
  \/ WorkerWait
  \/ WorkerTake
  \/ MeasureSocket
  \/ MeasureConnect

\* the same run with its threads scheduled: the caller is not suspended for
\* ever while it can go on, and neither are the workers; sock.settimeout makes
\* every connect return, so MeasureConnect belongs to the steps that happen
SpecRunFair ==
  InitRunFair /\ [][NextRun]_vars /\ WF_vars(CallerSteps) /\ WF_vars(WorkerSteps)

(***************************************************************************)
(* The expander on its own: every address of ExpInputs, the full ranges.   *)
(***************************************************************************)
\* IPv4 addresses a.b.c.d
V4Inputs ==
  { << a, ".", b, ".", c, ".", d >> : a, b, c, d \in { "1", "254" } }

\* IPv6 addresses in full eight-segment form
V6FullInputs ==
  { << "2001", ":", "db8", ":", "0", ":", "0", ":", "0", ":", "0", ":", g, ":", h >> :
      g, h \in { "0", "1", "a" } }

\* IPv6 addresses in compressed form: 2001:db8::1, ::1, 2001:db8::,
\* 2001:db8::1:2:3:4, fe80::1:2
V6CompressedInputs ==
  { << "2001", ":", "db8", ":", ":", "1" >>,
    << ":", ":", "1" >>,
    << "2001", ":", "db8", ":", ":" >>,
    << "2001", ":", "db8", ":", ":", "1", ":", "2", ":", "3", ":", "4" >>,
    << "fe80", ":", ":", "1", ":", "2" >> }

\* the addresses the expander is called with; AddrBad is no address
ExpInputs == V4Inputs \cup V6FullInputs \cup V6CompressedInputs \cup { AddrBad }

InitExp ==
  /\ LBIdle
  /\ BMIdle
  /\ RunIdle
  /\ MainIdle
  /\ expIn \in ExpInputs
  /\ expPc = 0
  /\ expOut = << >>

NextExp ==
  \/ CallExpandCSegment
  \/ CallExpandIPv6Block

SpecExp == InitExp /\ [][NextExp]_vars

(***************************************************************************)
(* main: both address families in turn, then the three hosts files.        *)
(* main runs in one thread, so a LoadBalancer it constructs is used by no  *)
(* other thread: an assign call is one step from call to return.           *)
(***************************************************************************)
\* the truth value of a list or string: `if ipv4_ips:`, `if all_results['v4']:`,
\* `if ip`
Truthy(x) == x # << >>

RECURSIVE AssignAll(_, _, _)
\* [(self.assign(domain), domain) for domain in domains] on a LoadBalancer over
\* ips whose cursor is index, with no other caller
AssignAll(ips, index, domains) ==
  IF domains = << >> THEN << >>
  ELSE IF IsEmptyPool(ips)
    THEN << << EmptyStr, Head(domains) >> >> \o AssignAll(ips, index, Tail(domains))
    ELSE << << ips[(index % Len(ips)) + 1], Head(domains) >> >>
           \o AssignAll(ips, index + 1, Tail(domains))

\* lb.generate_entries(domains) on a LoadBalancer just constructed over ips
generate_entries(ips, domains) == AssignAll(ips, 0, domains)

\* the header of a hosts file; a line is the sequence of its tokens, the
\* formatted date is one token
Header(ip_type) ==
  << << "# Generated by Project Mjolnir" >>,
     << "# Date: ", "now" >>,
     << "# Type: ", ip_type >>,
     << "#" >>,
     << "# FCM Domains: ", FCM_DOMAINS[1], ", ", FCM_DOMAINS[2], ", ", FCM_DOMAINS[3],
        "..." >>,
     << "# Generated using Adaptive Ranking with C-Segment Expansion" >>,
     << "#" >>,
     << >> >>

\* f"{ip} {domain}"
AddressLine(ip, domain) == ip \o << " ", domain >>

RECURSIVE AddressLines(_, _)
\* for ip, domain in entries: if ip and (ip, domain) not in seen: ...
AddressLines(entries, seen) ==
  IF entries = << >> THEN << >>
  ELSE LET e == Head(entries)
       IN  IF Truthy(e[1]) /\ e \notin seen
             THEN << AddressLine(e[1], e[2]) >>
                    \o AddressLines(Tail(entries), seen \cup { e })
             ELSE AddressLines(Tail(entries), seen)

\* the lines that generate_hosts_content joins with "\n"
generate_hosts_content(entries, ip_type) == Header(ip_type) \o AddressLines(entries, { })

\* positions of main
PcLoad == [ f \in Families |-> IF f = "v4" THEN "load_v4" ELSE "load_v6" ]
PcRun == [ f \in Families |-> IF f = "v4" THEN "run_v4" ELSE "run_v6" ]
PcFile == [ f \in Families |-> IF f = "v4" THEN "file_v4" ELSE "file_v6" ]
\* where main goes on after the selection of family f, and after its file
AfterRun == [ f \in Families |-> IF f = "v4" THEN "load_v6" ELSE "file_v4" ]
AfterFile == [ f \in Families |-> IF f = "v4" THEN "file_v6" ELSE "dual" ]

FileOf == [ f \in Families |-> IF f = "v4" THEN "fcm_ipv4.hosts" ELSE "fcm_ipv6.hosts" ]
TypeOf == [ f \in Families |-> IF f = "v4" THEN "IPv4 Only" ELSE "IPv6 Only" ]

\* ips = load_ips(file); random.shuffle(ips); if ips: expand_and_rescan(ips) is
\* called, else all_results[f] = []
MainLoad(f) ==
  /\ mainPc = PcLoad[f]
  /\ \E ips \in Shuffles(raw_ips[f]) :
       IF Truthy(ips)
         THEN /\ seeds' = ips
              /\ runPc' = "start"
              /\ initial_results' = << >>
              /\ allResults' = << >>
              /\ top_ips' = << >>
              /\ selected' = << >>
              /\ batches' = << >>
              /\ expanded_from' = << >>
              /\ mainPc' = PcRun[f]
              /\ UNCHANGED << selector_max_workers, all_results >>
         ELSE /\ all_results' = [ all_results EXCEPT ![f] = << >> ]
              /\ mainPc' = AfterRun[f]
              /\ UNCHANGED runVars
  /\ UNCHANGED << raw_ips, family_results, files >>
  /\ UNCHANGED << lbVars, bmVars, expVars >>

\* all_results[f] = selector.select_top_ips(ipvN_all_results): both calls of the
\* family have returned
MainSelected(f) ==
  /\ mainPc = PcRun[f]
  /\ runPc = "done"
  /\ family_results' = [ family_results EXCEPT ![f] = allResults ]
  /\ all_results' = [ all_results EXCEPT ![f] = selected ]
  /\ mainPc' = AfterRun[f]
  /\ UNCHANGED << raw_ips, files >>
  /\ UNCHANGED << lbVars, bmVars, runVars, expVars >>

\* if all_results[f]: lb = LoadBalancer(all_results[f]), which shuffles that
\* list in place; entries = lb.generate_entries(FCM_DOMAINS); the file is
\* written -- else the file is skipped
MainFile(f) ==
  /\ mainPc = PcFile[f]
  /\ IF Truthy(all_results[f])
       THEN \E q \in Shuffles(all_results[f]) :
              /\ all_results' = [ all_results EXCEPT ![f] = q ]
              /\ files' = [ files EXCEPT ![FileOf[f]] =
                              generate_hosts_content(generate_entries(q, Domains),
                                                     TypeOf[f]) ]
       ELSE UNCHANGED << all_results, files >>
  /\ mainPc' = AfterFile[f]
  /\ UNCHANGED << raw_ips, family_results >>
  /\ UNCHANGED << lbVars, bmVars, runVars, expVars >>

\* the entries of one family after the other, not interleaved by domain
DualEntries_Grouped(p4, p6) ==
  generate_entries(p4, Domains) \o generate_entries(p6, Domains)

\* for domain in FCM_DOMAINS: entries_dual.append((lb_v4.assign(domain), domain));
\* entries_dual.append((lb_v6.assign(domain), domain))
DualEntries(p4, p6) ==
  LET e4 == generate_entries(p4, Domains)
      e6 == generate_entries(p6, Domains)
  IN  Concat([ i \in DOMAIN Domains |-> << e4[i], e6[i] >> ])

\* the description of the dual-stack file
DualDesc(p4, p6) ==
  IF Truthy(p4) /\ Truthy(p6) THEN "Dual Stack (IPv4 + IPv6)"
  ELSE IF Truthy(p6) THEN "Dual Stack (IPv6 Only)"
  ELSE "Dual Stack (IPv4 Only)"

\* the dual-stack block: a LoadBalancer(shuffle=True) for every family that has
\* a pool, one entry per domain and family, and the file if there are entries
MainDual ==
  /\ mainPc = "dual"
  /\ \E q4 \in Shuffles(all_results["v4"]), q6 \in Shuffles(all_results["v6"]) :
       LET entries_dual ==
             IF Truthy(q4) /\ Truthy(q6) THEN DualEntries(q4, q6)
             ELSE IF Truthy(q4) THEN generate_entries(q4, Domains)
             ELSE IF Truthy(q6) THEN generate_entries(q6, Domains)
             ELSE << >>
       IN  /\ all_results' = [ f \in Families |-> IF f = "v4" THEN q4 ELSE q6 ]
           /\ files' = IF Truthy(entries_dual)
                         THEN [ files EXCEPT !["fcm_dual.hosts"] =
                                  generate_hosts_content(entries_dual, DualDesc(q4, q6)) ]
                         ELSE files
  /\ mainPc' = "end"
  /\ UNCHANGED << raw_ips, family_results >>
  /\ UNCHANGED << lbVars, bmVars, runVars, expVars >>

main ==
  \/ \E f \in Families : MainLoad(f)
  \/ \E f \in Families : MainSelected(f)
  \/ \E f \in Families : MainFile(f)
  \/ MainDual

\* the seed files main is run on
SeedFiles4 == { << >>, << Seed1 >>, << Seed1, Seed2 >> }
SeedFiles6 == { << >>, << Seed6 >> }

InitMain ==
  /\ LBIdle
  /\ ExpIdle
  /\ bmIps = << >>
  /\ max_workers = 1
  /\ env = RunOutcomes
  /\ bmPc = "none"
  /\ futures = << >>
  /\ workers = [ threads |-> 0, blocked |-> 0 ]
  /\ idleSem = 0
  /\ open_sockets = 0
  /\ results = << >>
  /\ seeds = << >>
  /\ selector_max_workers = MaxWorkers
  /\ runPc = "none"
  /\ initial_results = << >>
  /\ allResults = << >>
  /\ top_ips = << >>
  /\ selected = << >>
  /\ batches = << >>
  /\ expanded_from = << >>
  /\ mainPc = "load_v4"
  /\ raw_ips \in [ Families -> SeedFiles4 \cup SeedFiles6 ]
  /\ raw_ips["v4"] \in SeedFiles4
  /\ raw_ips["v6"] \in SeedFiles6
  /\ family_results = [ f \in Families |-> << >> ]
  /\ all_results = [ f \in Families |-> << >> ]
  /\ files = [ n \in HostsFiles |-> NoFile ]

NextMain ==
  \/ main
  \/ expand_and_rescan
  \/ batch_measure
  \/ select_top_ips

SpecMain == InitMain /\ [][NextMain]_vars

(***************************************************************************)
(* Properties of the LoadBalancer (SpecLB).                                *)
(***************************************************************************)
\* the LoadBalancers that were constructed
Made == { l \in LBIds : lbs[l].made }

\* the threads inside the locked region of l's assign
Inside(l) ==
  { t \in Threads : th[t].lb = l /\ th[t].pc \in { "read", "load", "store", "return" } }

\* C1: round-robin fairness -- once M >= N assign calls on a LoadBalancer over a
\* pool of N >= 1 entries have returned, every address of the pool has been
\* returned floor(M/N) or ceil(M/N) times.
C1_RoundRobinFair ==
  \A l \in Made :
    LET N == Len(IpsOf(l))
        M == Len(returned[l])
    IN  (N >= 1 /\ M >= N) =>
          \A a \in Range(IpsOf(l)) :
            Count(returned[l], a) \in { M \div N, (M + N - 1) \div N }

\* C2: atomic cursor -- on a LoadBalancer with a non-empty pool the assign calls
\* read the cursor values 0, 1, 2, ... each exactly once, whatever the
\* interleaving, and with no call inside the locked region the cursor equals the
\* number of calls that have returned.
C2_AtomicCursor ==
  \A l \in Made :
    IpsOf(l) # << >> =>
      /\ \A i \in DOMAIN observed[l] : observed[l][i] = i - 1
      /\ Inside(l) = { } =>
           /\ lbs[l].index = Len(returned[l])
           /\ Len(observed[l]) = Len(returned[l])

\* the case of C2: one thread is inside the locked region, the other waits for
\* the lock of the same LoadBalancer, and earlier calls have moved the cursor
C2_Witness ==
  \E l \in Made, t, u \in Threads :
    /\ t # u
    /\ th[t].lb = l /\ th[t].pc = "store"
    /\ th[u].lb = l /\ th[u].pc = "acquire"
    /\ lbs[l].index >= 2

\* C5: the Assigner does not mutate the candidate pool -- the caller's list has
\* the content and order it had before the first LoadBalancer was constructed.
C5_PoolNotMutated == lists["pool"] = origPool

\* C10: empty pool -- on a LoadBalancer over an empty pool every assign call
\* returns the empty string and none raises, so generate_entries pairs every
\* target with the empty string.
C10_EmptyPoolAbsent ==
  \A l \in Made :
    IpsOf(l) = << >> =>
      /\ \A i \in DOMAIN returned[l] : returned[l][i] = EmptyStr
      /\ \A t \in Threads :
           th[t].lb = l =>
             /\ th[t].pc # "raised"
             /\ \A i \in DOMAIN th[t].out : th[t].out[i][1] = EmptyStr

\* the case of C10: generate_entries has finished on an empty-pool LoadBalancer
\* that had served an assign call before
C10_Witness ==
  \E l \in Made, t \in Threads :
    /\ IpsOf(l) = << >>
    /\ th[t].lb = l /\ th[t].pc = "idle"
    /\ Len(th[t].out) = Len(Domains)
    /\ Len(returned[l]) > Len(Domains)

\* thread t is in, or has just finished, a generate_entries(FCM_DOMAINS) call:
\* the targets paired so far and those still to do make up the target list
InGenerateEntries(t) ==
  [ i \in DOMAIN th[t].out |-> th[t].out[i][2] ] \o th[t].todo = Domains

\* C13: generate_entries calls assign once per target in list order -- on a
\* LoadBalancer over a pool of N >= 1 entries whose cursor is c at the call,
\* and which no other caller uses meanwhile, the i-th pair (0-based) is
\* (pool[(c+i) mod N], targets[i]); when the call has returned there are T
\* pairs and the cursor is c+T; over a single-element pool every target gets
\* that one address.
C13_GenerateEntries ==
  \A l \in Made, t \in Threads :
    LET me == th[t]
        pool == IpsOf(l)
        N == Len(pool)
        T == Len(Domains)
        c == Len(returned[l]) - Len(me.out)
    IN  ( /\ Made = { l }
          /\ \A u \in Threads \ { t } : th[u] = IdleThread
          /\ me.lb = l
          /\ InGenerateEntries(t)
          /\ N >= 1 ) =>
          /\ \A i \in DOMAIN me.out :
               me.out[i] = << pool[((c + i - 1) % N) + 1], Domains[i] >>
          /\ me.pc = "idle" => (Len(me.out) = T /\ lbs[l].index = c + T)
          /\ N = 1 => \A i \in DOMAIN me.out : me.out[i][1] = pool[1]

\* the case of C13: generate_entries has returned on a LoadBalancer over two
\* distinct addresses whose cursor was 1 at the call
C13_Witness ==
  \E l \in Made, t \in Threads :
    /\ Made = { l }
    /\ \A u \in Threads \ { t } : th[u] = IdleThread
    /\ th[t].lb = l /\ th[t].pc = "idle"
    /\ Len(th[t].out) = Len(Domains)
    /\ InGenerateEntries(t)
    /\ Len(IpsOf(l)) = 2 /\ NoDup(IpsOf(l))
    /\ Len(returned[l]) = Len(Domains) + 1

\* the threads with an assign call in progress on l
Calling(l) == { t \in Threads : th[t].lb = l /\ th[t].pc # "idle" }

\* the assign calls on l that have moved the cursor: those that returned, and
\* the one past its store that has not returned yet
Advanced(l) ==
  Len(returned[l]) + Cardinality({ t \in Threads : th[t].lb = l /\ th[t].pc = "return" })

\* C14 as stated: independent cursors -- with two LoadBalancers over the same
\* pool, whenever no assign call is in progress on one of them its cursor
\* equals the number of assign calls made on it.
C14_IndependentCursors ==
  (Made = LBIds) =>
    \A l \in LBIds : Calling(l) = { } => lbs[l].index = Len(returned[l])

\* C14, amended: independent cursors over a non-empty pool -- with two
\* LoadBalancers over the same non-empty pool, in every interleaving the cursor
\* of each equals the number of assign calls on that LoadBalancer that have
\* passed their increment, whatever the calls on the other one do.
C14_IndependentCursorsNonEmpty ==
  (Made = LBIds /\ lists["pool"] # << >>) =>
    \A l \in LBIds :
      /\ lbs[l].index = Advanced(l)
      /\ Calling(l) = { } => lbs[l].index = Len(returned[l])

\* the case of C14: two LoadBalancers over a non-empty pool, two calls have
\* returned on one, and on the other one has returned and a second one has
\* stored its increment and not returned yet
C14_Witness ==
  /\ Made = LBIds
  /\ lists["pool"] # << >>
  /\ Len(returned["lb1"]) = 2 /\ lbs["lb1"].index = 2
  /\ Len(returned["lb2"]) = 1 /\ lbs["lb2"].index = 2
  /\ Calling("lb2") # { }

(***************************************************************************)
(* Properties of batch_measure and measure (SpecBM).                       *)
(***************************************************************************)
\* C6: full barrier -- batch_measure has returned only if every address was
\* submitted and every submitted probe has resolved.
C6_FullBarrier ==
  bmPc = "returned" =>
    /\ Len(futures) = Len(bmIps)
    /\ \A i \in DOMAIN futures : futures[i].state = "finished"

\* the case of C6: the batch has returned, its first collected result was a
\* success and a failure was collected after it
C6_Witness ==
  /\ bmPc = "returned"
  /\ Len(results) >= 2
  /\ results[1].success
  /\ \E i \in DOMAIN results : ~results[i].success

\* the addresses of a result list, in order
IpsOfResults(rs) == [ i \in DOMAIN rs |-> rs[i].ip ]

\* C7: one result per input address -- the returned list is as long as the
\* input and holds every address as many times as the input does.
C7_OneResultPerInput ==
  bmPc = "returned" =>
    /\ Len(results) = Len(bmIps)
    /\ \A a \in BatchAddrs : Count(IpsOfResults(results), a) = Count(bmIps, a)

\* the case of C7: a batch with a repeated address has returned its results in
\* another order than the input's
C7_Witness ==
  /\ bmPc = "returned"
  /\ \E a \in BatchAddrs : Count(bmIps, a) >= 2
  /\ Len(results) = Len(bmIps)
  /\ IpsOfResults(results) # bmIps

\* C8: bounded concurrency -- at most max_workers measure calls are in flight.
C8_BoundedInFlight == Cardinality(Running) <= max_workers

\* the case of C8: max_workers probes are in flight and an address waits
C8_Witness ==
  /\ Cardinality(Running) = max_workers
  /\ Pending # { }
  /\ Len(bmIps) > max_workers

\* C9: the prober never raises -- every finished measure call has returned a
\* SpeedResult: success with the elapsed latency when the handshake completed,
\* failure "timeout" on socket.timeout, failure with the error text otherwise;
\* and no exception has reached batch_measure.
C9_MeasureNeverRaises ==
  /\ bmPc \notin { "raising", "raised" }
  /\ \A f \in DOMAIN futures :
       futures[f].state = "finished" =>
         LET o == futures[f].outcome
             r == futures[f].res
         IN  /\ ~r.raised
             /\ r.value.ip = futures[f].ip
             /\ o.kind = "ok" =>
                  r.value.success /\ r.value.latency_ms = o.ms /\ r.value.error = "None"
             /\ (o.kind = "raise" /\ o.exc = "socket.timeout") =>
                  ~r.value.success /\ r.value.error = "timeout"
             /\ (o.kind = "raise" /\ o.exc # "socket.timeout") =>
                  ~r.value.success /\ r.value.error = o.text

\* the case of C9: a malformed address, a refused connection and a completed
\* handshake have all been reported as results of one batch
C9_Witness ==
  \E f, g, h \in DOMAIN futures :
    /\ futures[f].state = "finished" /\ futures[f].ip = AddrBad
    /\ futures[f].outcome = BadAddress
    /\ futures[g].state = "finished" /\ futures[g].outcome = ConnRefused
    /\ futures[h].state = "finished" /\ futures[h].outcome.kind = "ok"

\* the futures whose measure call holds a socket that is open
HoldingSocket == { f \in DOMAIN futures : futures[f].sock \in { "AF_INET", "AF_INET6" } }

\* C19: socket release on every exit path -- a measure call holds no socket
\* before its socket() call, one open socket while it connects, and none once
\* it has returned: the socket it opened is closed whether the connect
\* succeeded, timed out or failed otherwise; so the open sockets are those of
\* the calls in flight, at most max_workers, and none once batch_measure has
\* returned.
C19_SocketsReleased ==
  /\ \A f \in DOMAIN futures :
       /\ futures[f].state \in { "pending", "socket" } => futures[f].sock = "None"
       /\ futures[f].state = "connect" => f \in HoldingSocket
       /\ futures[f].state = "finished" =>
            futures[f].sock = IF futures[f].outcome = SocketFails THEN "None" ELSE "closed"
  /\ open_sockets = Cardinality(HoldingSocket)
  /\ open_sockets <= max_workers
  /\ bmPc = "returned" => open_sockets = 0

\* the case of C19: a batch has returned in which one probe connected, one
\* timed out and one was refused
C19_Witness ==
  /\ bmPc = "returned"
  /\ \E f, g, h \in DOMAIN futures :
       /\ futures[f].outcome.kind = "ok" /\ futures[f].sock = "closed"
       /\ futures[g].outcome = SockTimeout /\ futures[g].sock = "closed"
       /\ futures[h].outcome = ConnRefused /\ futures[h].sock = "closed"

(***************************************************************************)
(* Properties of the selection (SpecRun, SpecSel).                         *)
(***************************************************************************)
\* C3: no duplicate addresses in the candidate pool -- the list select_top_ips
\* returns for the result of expand_and_rescan holds no address twice.
C3_PoolNoDuplicates == runPc = "done" => NoDup(selected)

\* the positions of the successful results handed to select_top_ips
SuccessSet == { i \in DOMAIN allResults : allResults[i].success }

\* the positions of the results select_top_ips kept
KeptSet == Range(top_ips)

\* C4: adaptive top-K -- with K the number of target domains, select_top_ips
\* returns min(K, number of successes) addresses, each the address of a
\* successful result it kept, and no kept result is slower than a successful
\* result it dropped.
C4_AdaptiveTopK ==
  runPc = "done" =>
    LET K == Len(Domains)
        n == Cardinality(SuccessSet)
    IN  /\ Len(selected) = IF K < n THEN K ELSE n
        /\ Len(top_ips) = Len(selected)
        /\ NoDup(top_ips)
        /\ KeptSet \subseteq SuccessSet
        /\ \A i \in DOMAIN selected : selected[i] = allResults[top_ips[i]].ip
        /\ \A i \in KeptSet, j \in SuccessSet \ KeptSet :
             allResults[i].latency_ms <= allResults[j].latency_ms

\* the case of C4: more than K successes and a failure were handed in, and a
\* dropped success is strictly slower than a kept one that came after it
C4_Witness ==
  /\ runPc = "done"
  /\ Cardinality(SuccessSet) > Len(Domains)
  /\ \E f \in DOMAIN allResults : ~allResults[f].success
  /\ \E i \in KeptSet, j \in SuccessSet \ KeptSet :
       j < i /\ allResults[i].latency_ms < allResults[j].latency_ms

(***************************************************************************)
(* Properties of a run of expand_and_rescan (SpecRun).                     *)
(***************************************************************************)
\* no result of the list is a success
AllFailed(rs) == \A i \in DOMAIN rs : ~rs[i].success

\* one step of a run, as C16 allows it
C16_Step ==
  /\ Len(batches') <= 2
  /\ batches' # batches =>
       \/ batches = << >> /\ batches' = << seeds >>
       \/ /\ batches = << seeds >>
          /\ Len(batches') = 2
          /\ bmPc = "returned"
          /\ bmIps = seeds
          /\ Len(futures) = Len(seeds)
          /\ \A i \in DOMAIN futures : futures[i].state = "finished"
          /\ Len(results) = Len(seeds)
  /\ expanded_from' # expanded_from =>
       /\ expanded_from = << >>
       /\ Len(batches) = 1
       /\ bmPc = "returned"
       /\ \A k \in DOMAIN expanded_from' :
            \E i \in DOMAIN results :
              results[i].ip = expanded_from'[k] /\ results[i].success
  /\ Len(batches) = 2 => expanded_from' = expanded_from

\* C16: two rounds maximum, strictly ordered -- a run calls batch_measure at
\* most twice, first on the seed list; the second call is made only from a
\* state where the first has returned with every seed probe finished; the
\* expander is called at one point only, after the seed round, with addresses
\* of successful seed-round results, and never once the expansion round is
\* dispatched.
C16_TwoRounds == [][C16_Step]_vars

\* the case of C16: the run has returned after two rounds, and the expansion
\* round has found a working address that was not expanded in turn
C16_Witness ==
  /\ runPc = "done"
  /\ Len(batches) = 2
  /\ expanded_from # << >>
  /\ \E i \in DOMAIN allResults :
       i > Len(initial_results) /\ allResults[i].success

\* the addresses of the seed round's results
R1Ips == { initial_results[i].ip : i \in DOMAIN initial_results }

\* every neighbour the expander returned for the run's calls is an address of
\* the seed round
NothingNew == \A k \in DOMAIN expanded_from : Range(Expanded(expanded_from[k])) \subseteq R1Ips

\* C17: skipping the expansion round -- when the seed round R1 has no success,
\* expand_and_rescan returns exactly R1 after one batch and no expander call;
\* when R1 has successes and every expanded neighbour is an address of R1, it
\* returns exactly R1 after one batch; and the expansion round is only ever
\* dispatched with a success in R1 and a neighbour outside R1.
C17_SkipExpansion ==
  /\ runPc \in { "select", "done" } =>
       /\ AllFailed(initial_results) =>
            /\ allResults = initial_results
            /\ batches = << seeds >>
            /\ expanded_from = << >>
       /\ (~AllFailed(initial_results) /\ NothingNew) =>
            /\ allResults = initial_results
            /\ batches = << seeds >>
            /\ expanded_from # << >>
  /\ runPc = "scan2" => (~AllFailed(initial_results) /\ ~NothingNew)

\* the case of C17: the run has returned after one batch although the seed
\* round had a success (next to a failure), because the neighbours of the
\* success were all seed-round addresses
C17_Witness ==
  /\ runPc = "done"
  /\ \E i, j \in DOMAIN initial_results :
       initial_results[i].success /\ ~initial_results[j].success
  /\ expanded_from # << >>
  /\ NothingNew
  /\ batches = << seeds >>

\* how many times the run has handed address a to a probe: batch_measure
\* probes every entry of its list
ProbeCount(a) ==
  LET Sum[k \in 0..Len(batches)] ==
        IF k = 0 THEN 0 ELSE Sum[k - 1] + Count(batches[k], a)
  IN  Sum[Len(batches)]

C20_RunTerminates ==
  /\ (bmPc = "call") ~> (bmPc = "returned")
  /\ (runPc = "start") ~> (runPc \in { "select", "done" })

\* the case of C20: expand_and_rescan has returned after two rounds in which
\* probes ran into their timeout
C20_Witness ==
  /\ runPc = "select"
  /\ Len(batches) = 2
  /\ \E i, j \in DOMAIN allResults :
       /\ i <= Len(initial_results) /\ allResults[i].error = "timeout"
       /\ j > Len(initial_results) /\ allResults[j].error = "timeout"

(***************************************************************************)
(* Properties of main (SpecMain).                                          *)
(***************************************************************************)
\* main is past the probing and selection of family f
Processed(f) ==
  IF f = "v4" THEN mainPc \notin { "load_v4", "run_v4" }
  ELSE mainPc \in { "file_v4", "file_v6", "dual", "end" }

\* the lines of a hosts file after its header
EntryLines(n) ==
  IF files[n] = NoFile THEN << >>
  ELSE SubSeq(files[n], Len(Header("")) + 1, Len(files[n]))

\* the address of a line "{ip} {domain}": what stands before the blank
LineIp(line) == SubSeq(line, 1, FirstSep(line, " ") - 1)

FamilyOfIp(ip) == IF HasColon(ip) THEN "v6" ELSE "v4"

\* C11: all-fail end to end -- when every probe of a family's seed list has
\* failed, expand_and_rescan returns exactly these failed results,
\* select_top_ips returns the empty pool, no hosts file holds a line with an
\* address of that family or with an empty address, and no exception ends the
\* run.
C11_AllFailNoLines ==
  /\ (runPc \in { "select", "done" } /\ AllFailed(initial_results)) =>
       /\ allResults = initial_results
       /\ Len(allResults) = Len(seeds)
       /\ AllFailed(allResults)
       /\ Len(batches) = 1
       /\ runPc = "done" => selected = << >>
  /\ \A f \in Families :
       (Processed(f) /\ AllFailed(family_results[f])) =>
         /\ all_results[f] = << >>
         /\ \A n \in HostsFiles :
              \A k \in DOMAIN EntryLines(n) :
                /\ LineIp(EntryLines(n)[k]) # EmptyStr
                /\ FamilyOfIp(LineIp(EntryLines(n)[k])) # f
  /\ bmPc \notin { "raising", "raised" }

\* the case of C11: main has ended; both probes of a two-address seed list
\* failed, and the dual-stack file was written from the other family's pool
C11_Witness ==
  /\ mainPc = "end"
  /\ \E f \in Families :
       /\ Len(raw_ips[f]) = 2
       /\ Len(family_results[f]) = 2
       /\ AllFailed(family_results[f])
  /\ Len(EntryLines("fcm_dual.hosts")) = Len(Domains)

\* the domain of a line "{ip} {domain}": what stands after the blank
LineDomain(line) == SubSeq(line, FirstSep(line, " ") + 1, Len(line))

\* the positions of the lines of a hosts file that give domain d an address of
\* the pool of family f
LinesFor(n, d, f) ==
  { k \in DOMAIN EntryLines(n) :
      /\ LineDomain(EntryLines(n)[k]) = << d >>
      /\ \E i \in DOMAIN all_results[f] : all_results[f][i] = LineIp(EntryLines(n)[k]) }

\* C21: dual-stack 1:1 assignment -- when both the IPv4 pool and the IPv6 pool
\* are non-empty, the dual-stack file written by main holds, for every target
\* domain, exactly one line with an address of the IPv4 pool and exactly one
\* line with an address of the IPv6 pool, in the order of the domain list with
\* the IPv4 line before the IPv6 line, and no (address, domain) line twice.
C21_DualOneToOne ==
  (mainPc = "end" /\ Truthy(all_results["v4"]) /\ Truthy(all_results["v6"])) =>
    /\ files["fcm_dual.hosts"] # NoFile
    /\ Len(EntryLines("fcm_dual.hosts")) = 2 * Len(Domains)
    /\ \A i \in DOMAIN Domains :
         /\ LinesFor("fcm_dual.hosts", Domains[i], "v4") = { 2 * i - 1 }
         /\ LinesFor("fcm_dual.hosts", Domains[i], "v6") = { 2 * i }
    /\ \A j, k \in DOMAIN EntryLines("fcm_dual.hosts") :
         j # k => EntryLines("fcm_dual.hosts")[j] # EntryLines("fcm_dual.hosts")[k]

\* the case of C21: main has ended with an IPv4 pool of two addresses and an
\* IPv6 pool, and the dual-stack file holds two lines per domain, so that the
\* IPv4 pool wraps around or alternates over the domain list
C21_Witness ==
  /\ mainPc = "end"
  /\ Len(all_results["v4"]) = 2
  /\ Truthy(all_results["v6"])
  /\ Len(EntryLines("fcm_dual.hosts")) = 2 * Len(Domains)
  /\ LineIp(EntryLines("fcm_dual.hosts")[1]) # LineIp(EntryLines("fcm_dual.hosts")[3])

(***************************************************************************)
(* Properties of the expander (SpecExp).                                   *)
(***************************************************************************)
\* the address is a dotted quad a.b.c.d
IsIPv4(ip) == ~HasColon(ip) /\ Len(Split(ip, ".")) = 4

\* the decimal numerals of 1..254
HostNumerals == { << ToString(i) >> : i \in 1..254 }

\* C12: IPv4 block expansion -- for an IPv4 seed a.b.c.d every call of
\* expand_c_segment returns 254 pairwise distinct addresses, each a.b.c.i with
\* 1 <= i <= 254, and two calls with the same seed return the same list.
C12_IPv4Expansion ==
  \A k \in DOMAIN expOut :
    (IsIPv4(expIn) /\ expOut[k].fn = "expand_c_segment") =>
      LET out == expOut[k].out
      IN  /\ Len(out) = 254
          /\ NoDup(out)
          /\ \A j \in DOMAIN out :
               LET parts == Split(out[j], ".")
               IN  /\ Len(parts) = 4
                   /\ Take(parts, 3) = Take(Split(expIn, "."), 3)
                   /\ parts[4] \in HostNumerals
          /\ \A m \in DOMAIN expOut :
               expOut[m].fn = "expand_c_segment" => expOut[m].out = out

\* the case of C12: expand_c_segment has been called twice on 1.254.1.254
C12_Witness ==
  /\ expIn = << "1", ".", "254", ".", "1", ".", "254" >>
  /\ Len(expOut) >= 2
  /\ expOut[1].fn = "expand_c_segment" /\ expOut[2].fn = "expand_c_segment"
  /\ expOut[1].out[254] = expIn

\* position of the "::" of a compressed IPv6 address, 0 if it has none
GapAt(ip) ==
  IF \E i \in 1..(Len(ip) - 1) : ip[i] = ":" /\ ip[i + 1] = ":"
    THEN CHOOSE i \in 1..(Len(ip) - 1) :
           /\ ip[i] = ":" /\ ip[i + 1] = ":"
           /\ \A j \in 1..(i - 1) : ~(ip[j] = ":" /\ ip[j + 1] = ":")
    ELSE 0

\* the groups written out in a piece of an IPv6 address
Words(s) ==
  LET NonEmpty(part) == part # << >>
  IN  SelectSeq(Split(s, ":"), NonEmpty)

\* the segments of the address an IPv6 text denotes: "::" stands for the zero
\* segments that fill the address up to eight; << >> if the text has "::" and
\* eight or more groups
Segments(ip) ==
  LET g == GapAt(ip)
      before == Words(SubSeq(ip, 1, g - 1))
      after == Words(SubSeq(ip, g + 2, Len(ip)))
      fill == 8 - Len(before) - Len(after)
  IN  IF g = 0 THEN Split(ip, ":")
      ELSE IF fill < 1 THEN << >>
      ELSE before \o [ k \in 1..fill |-> << "0" >> ] \o after

\* the text is an IPv6 address, in full or in compressed form
IsIPv6(ip) == HasColon(ip) /\ Len(Segments(ip)) = 8

\* C15: IPv6 block expansion -- for an IPv6 seed, in full or in compressed
\* form, expand_ipv6_block returns 8 pairwise distinct addresses, each with
\* the first 7 of the 8 segments of the seed.
C15_IPv6Expansion ==
  \A k \in DOMAIN expOut :
    (IsIPv6(expIn) /\ expOut[k].fn = "expand_ipv6_block") =>
      LET out == expOut[k].out
      IN  /\ Len(out) = 8
          /\ NoDup(out)
          /\ \A j \in DOMAIN out :
               /\ Len(Segments(out[j])) = 8
               /\ Take(Segments(out[j]), 7) = Take(Segments(expIn), 7)

====
